---- MODULE Spec2Model ----
(***************************************************************************)
(* Model of the fire-risk engine of Hazard-Mapper                          *)
(* (app/utils/fire_risk_service.py): load_fire_data and                    *)
(* calculate_fire_risk, and of its web application (app/main.py,           *)
(* app/crud.py, app/models.py, app/security.py): the request handlers over *)
(* the database.                                                           *)
(*                                                                         *)
(* Numbers.  Python floats are modelled in fixed point:                    *)
(*   latitude / longitude   integers, unit 0.001 degree                    *)
(*   frp / brightness       integers, unit 1                               *)
(*   means                  integers, unit 0.001                           *)
(*   distances              integers, unit 0.00001 degree                  *)
(*   factors and risks      integers, unit 0.00001 (Unit = 1.0)            *)
(* Only finite values are modelled (no inf / NaN cell in a data file).     *)
(***************************************************************************)
EXTENDS Integers, Sequences, FiniteSets, Bags, TLC

VARIABLES
    fire_data_dir,  \* listing of FIRE_DATA_DIR: sequence of file names
    now_year,       \* datetime.now().year, the same all along a behaviour
    pc,             \* position of the running calculate_fire_risk call
    track_points,   \* argument of the running call
    years,          \* load_fire_data: years still to visit
    year,           \* load_fire_data: loop variable of `for year in years`
    matches,        \* load_fire_data: glob results of `year` still to read
    fire_dfs,       \* load_fire_data: frames retained so far
    fire_data,      \* calculate_fire_risk: the concatenated corpus
    fire_tree,      \* calculate_fire_risk: KDTree over the corpus coordinates
    risks,          \* calculate_fire_risk: result array
    i,              \* calculate_fire_risk: loop index (1-based)
    visits,         \* history: what load_fire_data did, in order
    last,           \* history: outcome of the previous call
    workers,        \* concurrent calculate_fire_risk calls: the locals of each
    db,             \* the database: one sequence of rows per table
    request,        \* the HTTP request (or crud call) handled last
    response,       \* and the answer to it
    last_effective  \* history: per (user, track), the last favorites call that
                    \* changed the table

(* the data files and the clock *)
env_vars == <<fire_data_dir, now_year>>

(* one calculate_fire_risk call at a time *)
call_vars == <<pc, track_points, years, year, matches,
               fire_dfs, fire_data, fire_tree, risks, i, visits, last>>

(* calculate_fire_risk calls running at the same time *)
pool_vars == <<workers>>

(* the web application *)
web_vars == <<db, request, response, last_effective>>

vars == <<env_vars, call_vars, pool_vars, web_vars>>

----------------------------------------------------------------------------
(* Bounds *)

MaxPoints == 2
MaxFiles == 2
MaxYear == 2017
MaxCalls == 2
MaxUsers == 2
MaxTracks == 1

(* Program constants *)

SEARCH_RADIUS == 50
StopYear == 2014
Unit == 100 * 1000

----------------------------------------------------------------------------
(* Cells of a tabular file *)

Num(v)  == [kind |-> "num",  val |-> v]
Txt     == [kind |-> "txt",  val |-> 0]
DateTxt(d) == [kind |-> "datetxt", val |-> d]
Stamp(d) == [kind |-> "ts", val |-> d]
NA      == [kind |-> "na",   val |-> 0]

IsNA(c) == c.kind = "na"

to_numeric(c) == IF c.kind = "num" THEN c ELSE NA

to_datetime(c) == IF c.kind = "datetxt" THEN Stamp(c.val)
                  ELSE IF c.kind = "ts" THEN c
                  ELSE NA

RenameCol(c) == IF c = "bright_ti4" THEN "brightness"
                ELSE IF c = "acq_date" THEN "date"
                ELSE c

NumericCols == {"latitude", "longitude", "brightness", "frp"}

----------------------------------------------------------------------------
(* Frames: [cols : set of column names, rows : sequence of rows], a row   *)
(* being a function from cols to cells                                     *)

rename(df) ==
    LET newcols == {RenameCol(c) : c \in df.cols}
        old(n)  == CHOOSE c \in df.cols : RenameCol(c) = n
    IN [cols |-> newcols,
        rows |-> [k \in 1..Len(df.rows) |->
                    [n \in newcols |-> df.rows[k][old(n)]]]]

coerce_numeric(df) ==
    [cols |-> df.cols,
     rows |-> [k \in 1..Len(df.rows) |->
                 [c \in df.cols |-> IF c \in NumericCols
                                    THEN to_numeric(df.rows[k][c])
                                    ELSE df.rows[k][c]]]]

(* dropna(how='all'): a row goes only when every field of subset is missing *)
dropna_all(df, subset) ==
    [cols |-> df.cols,
     rows |-> SelectSeq(df.rows, LAMBDA r : \E c \in subset : ~IsNA(r[c]))]

dropna(df, subset) ==
    [cols |-> df.cols,
     rows |-> SelectSeq(df.rows, LAMBDA r : \A c \in subset : ~IsNA(r[c]))]

parse_date(df) ==
    [cols |-> df.cols,
     rows |-> [k \in 1..Len(df.rows) |->
                 [c \in df.cols |-> IF c = "date"
                                    THEN to_datetime(df.rows[k][c])
                                    ELSE df.rows[k][c]]]]

stamp_year(df, y) ==
    [cols |-> df.cols \cup {"year"},
     rows |-> [k \in 1..Len(df.rows) |->
                 [c \in df.cols \cup {"year"} |->
                    IF c = "year" THEN Num(y) ELSE df.rows[k][c]]]]

RECURSIVE AllCols(_)
AllCols(dfs) == IF dfs = <<>> THEN {}
                ELSE Head(dfs).cols \cup AllCols(Tail(dfs))

RECURSIVE AllRows(_, _)
AllRows(dfs, cols) ==
    IF dfs = <<>> THEN <<>>
    ELSE [k \in 1..Len(Head(dfs).rows) |->
            [c \in cols |-> IF c \in Head(dfs).cols
                            THEN Head(dfs).rows[k][c] ELSE NA]]
         \o AllRows(Tail(dfs), cols)

concat(dfs) == [cols |-> AllCols(dfs), rows |-> AllRows(dfs, AllCols(dfs))]

(* Body of the try block for one file: "error" when an exception is       *)
(* raised inside it, "empty" when no row survives, "loaded" otherwise.     *)
read_file(file, y) ==
    IF ~file.readable THEN [status |-> "error", df |-> <<>>]
    ELSE LET df1 == coerce_numeric(rename([cols |-> file.cols, rows |-> file.rows]))
         IN IF ~(NumericCols \subseteq df1.cols) \/ "date" \notin df1.cols
            THEN [status |-> "error", df |-> <<>>]
            ELSE LET df2 == dropna(parse_date(dropna(df1, NumericCols)), {"date"})
                 IN IF df2.rows = <<>>
                    THEN [status |-> "empty", df |-> <<>>]
                    ELSE [status |-> "loaded", df |-> stamp_year(df2, y)]

----------------------------------------------------------------------------
(* File names and glob *)

DigitChars == <<"0", "1", "2", "3", "4", "5", "6", "7", "8", "9">>

YearDigits(y) == << DigitChars[((y \div 1000) % 10) + 1],
                    DigitChars[((y \div 100) % 10) + 1],
                    DigitChars[((y \div 10) % 10) + 1],
                    DigitChars[(y % 10) + 1] >>

Contains(name, tok) ==
    \E k \in 1..(Len(name) - Len(tok) + 1) :
        SubSeq(name, k, k + Len(tok) - 1) = tok

(* glob.glob(FIRE_DATA_DIR/*{year}*.csv): a file name is modelled by the  *)
(* characters before its ".csv" extension; matches come in listing order.  *)
glob(dir, y) == SelectSeq(dir, LAMBDA name : Contains(name, YearDigits(y)))

(* range(now, 2014, -1): the current year included *)
year_range_from_now(now) ==
    [k \in 1..(IF now > StopYear THEN now - StopYear ELSE 0) |-> now + 1 - k]

(* list(range(now - 1, 2014, -1)) *)
year_range(now) ==
    [k \in 1..(IF now - 1 > StopYear THEN now - 1 - StopYear ELSE 0) |-> now - k]

----------------------------------------------------------------------------
(* Scoring arithmetic *)

RECURSIVE SqrtBetween(_, _, _)
SqrtBetween(n, lo, hi) ==
    IF hi - lo <= 1 THEN lo
    ELSE LET mid == (lo + hi) \div 2
         IN IF mid * mid <= n THEN SqrtBetween(n, mid, hi)
            ELSE SqrtBetween(n, lo, mid)

(* floor of the square root *)
ISqrt(n) == SqrtBetween(n, 0, 46340)

RECURSIVE SumOver(_, _)
SumOver(f, S) == IF S = {} THEN 0
                 ELSE LET j == CHOOSE k \in S : TRUE
                      IN f[j] + SumOver(f, S \ {j})

MinOver(f, S) ==
    LET values == {f[j] : j \in S}
    IN CHOOSE m \in values : \A v \in values : m <= v

Min(a, b) == IF a <= b THEN a ELSE b

(* point_coord = [point.latitude, point.longitude] *)
point_coord(point) == <<point.latitude, point.longitude>>

(* fire_data[['latitude', 'longitude']].values *)
coords(df) == [j \in 1..Len(df.rows) |->
                 <<df.rows[j]["latitude"].val, df.rows[j]["longitude"].val>>]

(* KDTree(fire_coords): the index holds the coordinate array *)
KDTree(data) == data

Abs(a) == IF a < 0 THEN 0 - a ELSE a

(* the query with p = 1: city-block distance *)
query_ball_point_cityblock(tree, x, r) ==
    {j \in 1..Len(tree) : Abs(tree[j][1] - x[1]) + Abs(tree[j][2] - x[2]) <= r}

(* fire_tree.query_ball_point(x, r): indices of the points at Euclidean    *)
(* distance (p = 2, the default) at most r of x; a point outside the box   *)
(* of side 2r around x is out before its distance is computed              *)
query_ball_point(tree, x, r) ==
    {j \in 1..Len(tree) :
        /\ Abs(tree[j][1] - x[1]) <= r
        /\ Abs(tree[j][2] - x[2]) <= r
        /\ (tree[j][1] - x[1]) * (tree[j][1] - x[1])
         + (tree[j][2] - x[2]) * (tree[j][2] - x[2]) <= r * r}

(* np.linalg.norm(nearby[['latitude','longitude']].values - point_coord,   *)
(* axis=1), in units of 0.00001 degree                                     *)
distances(df, indices, x) ==
    [j \in indices |->
        LET dlat == df.rows[j]["latitude"].val - x[1]
            dlon == df.rows[j]["longitude"].val - x[2]
        IN ISqrt((dlat * dlat + dlon * dlon) * 10000)]

(* nearby[col].mean(), in units of 0.001 *)
mean(df, indices, col) ==
    (SumOver([j \in indices |-> df.rows[j][col].val], indices) * 1000)
        \div Cardinality(indices)

(* the min() left out *)
count_factor_unbounded(n) == (n * Unit) \div 20

count_factor(n) == Min((n * Unit) \div 20, Unit)

intensity_factor(df, indices) == (mean(df, indices, "frp") * 100) \div 50

brightness_factor(df, indices) ==
    ((mean(df, indices, "brightness") - 300 * 1000) * 100) \div 200

(* the nearest distance as a share of the radius, not its complement *)
proximity_factor_ratio(df, indices, x) ==
    (MinOver(distances(df, indices, x), indices) * Unit) \div (SEARCH_RADIUS * 100)

proximity_factor(df, indices, x) ==
    ((SEARCH_RADIUS * 100 - MinOver(distances(df, indices, x), indices)) * Unit)
        \div (SEARCH_RADIUS * 100)

(* the weights of count and intensity exchanged *)
risk_score_swapped(df, indices, x) ==
    ( 3 * count_factor(Cardinality(indices))
    + 4 * intensity_factor(df, indices)
    + 2 * brightness_factor(df, indices)
    + 1 * proximity_factor(df, indices, x) ) \div 10

risk_score(df, indices, x) ==
    ( 4 * count_factor(Cardinality(indices))
    + 3 * intensity_factor(df, indices)
    + 2 * brightness_factor(df, indices)
    + 1 * proximity_factor(df, indices, x) ) \div 10

(* np.clip left out *)
clip_identity(a, lo, hi) == a

(* np.clip(a, lo, hi) *)
clip(a, lo, hi) == IF a < lo THEN lo ELSE IF a > hi THEN hi ELSE a

----------------------------------------------------------------------------
(* The data files the directory may hold, and the track points a caller    *)
(* may pass                                                                *)

ViirsCols == {"latitude", "longitude", "bright_ti4", "frp", "acq_date"}
ModisCols == {"latitude", "longitude", "brightness", "frp", "acq_date", "confidence"}

ViirsRow(lat, lon, b, frp, d) ==
    [c \in ViirsCols |->
        CASE c = "latitude" -> lat [] c = "longitude" -> lon
          [] c = "bright_ti4" -> b [] c = "frp" -> frp [] OTHER -> d]

ModisRow(lat, lon, b, frp, d) ==
    [c \in ModisCols |->
        CASE c = "latitude" -> lat [] c = "longitude" -> lon
          [] c = "brightness" -> b [] c = "frp" -> frp
          [] c = "acq_date" -> d [] OTHER -> Num(80)]

NoFrpRow(lat, lon, b, d) ==
    [c \in ViirsCols \ {"frp"} |->
        CASE c = "latitude" -> lat [] c = "longitude" -> lon
          [] c = "bright_ti4" -> b [] OTHER -> d]

File(name, readable, cols, rows) ==
    [name |-> name, readable |-> readable, cols |-> cols, rows |-> rows]

Catalogue == <<
    \* one detection at (10.000, 20.000), frp 50, brightness 400
    File(<<"v", "2", "0", "1", "6">>, TRUE, ViirsCols,
         << ViirsRow(Num(10000), Num(20000), Num(400), Num(50), DateTxt(20160704)) >>),
    \* cannot be read
    File(<<"u", "2", "0", "1", "5">>, FALSE, {}, <<>>),
    \* three valid rows and two rows without frp
    File(<<"m", "2", "0", "1", "5">>, TRUE, ModisCols,
         << ModisRow(Num(30), Num(40), Num(0), Num(0), DateTxt(20150801)),
            ModisRow(Num(10001), Num(20001), Num(900), NA, DateTxt(20150801)),
            ModisRow(Num(31), Num(40), Num(350), Num(10), DateTxt(20150802)),
            ModisRow(Num(10001), Num(20001), Num(900), Txt, DateTxt(20150802)),
            ModisRow(Num(10500), Num(20500), Num(330), Num(5), DateTxt(20150803)) >>),
    \* every row fails one of the five fields
    File(<<"x", "2", "0", "1", "6">>, TRUE, ViirsCols,
         << ViirsRow(Txt, Num(20001), Num(400), Num(50), DateTxt(20160101)),
            ViirsRow(Num(10001), NA, Num(400), Num(50), DateTxt(20160101)),
            ViirsRow(Num(10001), Num(20001), Txt, Num(50), DateTxt(20160101)),
            ViirsRow(Num(10001), Num(20001), Num(400), Num(50), Txt),
            ViirsRow(Num(10001), Num(20001), Num(400), Num(50), NA) >>),
    \* many coincident high-power detections
    File(<<"b", "2", "0", "1", "6">>, TRUE, ViirsCols,
         [k \in 1..11 |->
            ViirsRow(Num(10001), Num(20001), Num(500), Num(1000), DateTxt(20160615))]),
    \* five detections at (10.000, 20.000) and ten at (0, 0); two year
    \* tokens in the name, dates of a third year
    File(<<"t", "2", "0", "1", "5", "_", "2", "0", "1", "6">>, TRUE, ViirsCols,
         [k \in 1..15 |->
            IF k <= 5
            THEN ViirsRow(Num(10000), Num(20000), Num(400), Num(50), DateTxt(20131231))
            ELSE ViirsRow(Num(0), Num(0), Num(400), Num(50), DateTxt(20131231))]),
    \* a year before the range and a later year
    File(<<"o", "2", "0", "1", "4", "_", "2", "0", "1", "7">>, TRUE, ViirsCols,
         << ViirsRow(Num(10001), Num(20001), Num(400), Num(50), DateTxt(20140704)) >>),
    \* no frp column
    File(<<"n", "2", "0", "1", "6">>, TRUE, ViirsCols \ {"frp"},
         << NoFrpRow(Num(10001), Num(20001), Num(400), DateTxt(20160704)) >>)
  >>

Names == {Catalogue[k].name : k \in 1..Len(Catalogue)}

(* the names of S in listing order *)
Listing(S) ==
    LET fs == SelectSeq(Catalogue, LAMBDA f : f.name \in S)
    IN [k \in 1..Len(fs) |-> fs[k].name]

(* pd.read_csv(file): what the file of that name holds *)
read_csv(name) == Catalogue[CHOOSE k \in 1..Len(Catalogue) : Catalogue[k].name = name]

Point(lat, lon) == [latitude |-> lat, longitude |-> lon]

Points == {Point(10001, 20001), Point(0, 0)}

Tracks == UNION {[1..n -> Points] : n \in 0..MaxPoints}

NoFrame == [cols |-> {}, rows |-> <<>>]

NoCall == [outcome |-> "none", points |-> <<>>, result |-> <<>>]

(* the tables of models.py, empty *)
NoDb == [users |-> <<>>, tracks |-> <<>>, track_points |-> <<>>, track_images |-> <<>>,
         comments |-> <<>>, favorites |-> EmptyBag, fire_forecasts |-> <<>>,
         tracks_autoincrement |-> 1]

NoRequest == [op |-> "none"]

NoResponse == [status |-> 0]

----------------------------------------------------------------------------
(* State machine *)

Init ==
    /\ \E S \in SUBSET Names :
          /\ Cardinality(S) <= MaxFiles
          /\ fire_data_dir = Listing(S)
    /\ now_year \in StopYear + 1 .. MaxYear
    /\ pc = "idle"
    /\ track_points = <<>>
    /\ years = <<>>
    /\ year = 0
    /\ matches = <<>>
    /\ fire_dfs = <<>>
    /\ fire_data = NoFrame
    /\ fire_tree = <<>>
    /\ risks = <<>>
    /\ i = 0
    /\ visits = <<>>
    /\ last = NoCall
    /\ workers = <<>>
    /\ db = NoDb
    /\ request = NoRequest
    /\ response = NoResponse
    /\ last_effective = <<>>

(* calculate_fire_risk(track_points) is entered (its locals are unbound)   *)
(* and calls load_fire_data, which starts with an empty fire_dfs and the   *)
(* list of years.                                                          *)
Call(points) ==
    /\ pc = "idle"
    /\ pc' = "load"
    /\ track_points' = points
    /\ fire_dfs' = <<>>
    /\ years' = year_range(now_year)
    /\ year' = 0
    /\ matches' = <<>>
    /\ visits' = <<>>
    /\ UNCHANGED <<fire_data_dir, now_year, fire_data, fire_tree, risks, i, last>>
    /\ UNCHANGED <<pool_vars, web_vars>>

(* for year in years: the glob of the next year *)
NextYear ==
    /\ pc = "load"
    /\ matches = <<>>
    /\ years # <<>>
    /\ year' = Head(years)
    /\ years' = Tail(years)
    /\ matches' = glob(fire_data_dir, Head(years))
    /\ visits' = Append(visits, [ev |-> "year", year |-> Head(years), name |-> <<>>])
    /\ UNCHANGED <<fire_data_dir, now_year, pc, track_points, fire_dfs,
                   fire_data, fire_tree, risks, i, last>>
    /\ UNCHANGED <<pool_vars, web_vars>>

(* a file that loaded is removed from the directory *)
LoadFile_consume ==
    /\ pc = "load"
    /\ matches # <<>>
    /\ LET r == read_file(read_csv(Head(matches)), year)
       IN /\ r.status = "loaded"
          /\ fire_dfs' = Append(fire_dfs, r.df)
    /\ matches' = Tail(matches)
    /\ fire_data_dir' = SelectSeq(fire_data_dir, LAMBDA name : name # Head(matches))
    /\ visits' = Append(visits, [ev |-> "loaded", year |-> year, name |-> Head(matches)])
    /\ UNCHANGED <<now_year, pc, track_points, years, year,
                   fire_data, fire_tree, risks, i, last>>
    /\ UNCHANGED <<pool_vars, web_vars>>

(* the try block runs to its end and the frame is kept *)
LoadFile ==
    /\ pc = "load"
    /\ matches # <<>>
    /\ LET r == read_file(read_csv(Head(matches)), year)
       IN /\ r.status = "loaded"
          /\ fire_dfs' = Append(fire_dfs, r.df)
    /\ matches' = Tail(matches)
    /\ visits' = Append(visits, [ev |-> "loaded", year |-> year, name |-> Head(matches)])
    /\ UNCHANGED <<fire_data_dir, now_year, pc, track_points, years, year,
                   fire_data, fire_tree, risks, i, last>>
    /\ UNCHANGED <<pool_vars, web_vars>>

(* the try block runs to its end, df is empty: nothing is kept *)
SkipEmpty ==
    /\ pc = "load"
    /\ matches # <<>>
    /\ read_file(read_csv(Head(matches)), year).status = "empty"
    /\ matches' = Tail(matches)
    /\ visits' = Append(visits, [ev |-> "empty", year |-> year, name |-> Head(matches)])
    /\ UNCHANGED <<fire_data_dir, now_year, pc, track_points, years, year,
                   fire_dfs, fire_data, fire_tree, risks, i, last>>
    /\ UNCHANGED <<pool_vars, web_vars>>

(* no try/except: the error of the file leaves load_fire_data *)
SkipError_escape ==
    /\ pc = "load"
    /\ matches # <<>>
    /\ read_file(read_csv(Head(matches)), year).status = "error"
    /\ pc' = "raised"
    /\ visits' = Append(visits, [ev |-> "error", year |-> year, name |-> Head(matches)])
    /\ UNCHANGED <<fire_data_dir, now_year, track_points, years, year, matches,
                   fire_dfs, fire_data, fire_tree, risks, i, last>>
    /\ UNCHANGED <<pool_vars, web_vars>>

(* except Exception: the error is logged and the loop goes on *)
SkipError ==
    /\ pc = "load"
    /\ matches # <<>>
    /\ read_file(read_csv(Head(matches)), year).status = "error"
    /\ matches' = Tail(matches)
    /\ visits' = Append(visits, [ev |-> "error", year |-> year, name |-> Head(matches)])
    /\ UNCHANGED <<fire_data_dir, now_year, pc, track_points, years, year,
                   fire_dfs, fire_data, fire_tree, risks, i, last>>
    /\ UNCHANGED <<pool_vars, web_vars>>

(* no check of fire_dfs: an empty corpus is returned *)
RaiseEmpty_return ==
    /\ pc = "load"
    /\ matches = <<>>
    /\ years = <<>>
    /\ fire_dfs = <<>>
    /\ fire_data' = NoFrame
    /\ pc' = "index"
    /\ UNCHANGED <<fire_data_dir, now_year, track_points, years, year, matches,
                   fire_dfs, fire_tree, risks, i, visits, last>>
    /\ UNCHANGED <<pool_vars, web_vars>>

(* if not fire_dfs: raise ValueError *)
RaiseEmpty ==
    /\ pc = "load"
    /\ matches = <<>>
    /\ years = <<>>
    /\ fire_dfs = <<>>
    /\ pc' = "raised"
    /\ UNCHANGED <<fire_data_dir, now_year, track_points, years, year, matches,
                   fire_dfs, fire_data, fire_tree, risks, i, visits, last>>
    /\ UNCHANGED <<pool_vars, web_vars>>

(* return pd.concat(fire_dfs, ignore_index=True), bound to fire_data *)
ReturnCorpus ==
    /\ pc = "load"
    /\ matches = <<>>
    /\ years = <<>>
    /\ fire_dfs # <<>>
    /\ fire_data' = concat(fire_dfs)
    /\ fire_dfs' = <<>>
    /\ pc' = "index"
    /\ UNCHANGED <<fire_data_dir, now_year, track_points, years, year, matches,
                   fire_tree, risks, i, visits, last>>
    /\ UNCHANGED <<pool_vars, web_vars>>

(* the index is built and risks = np.zeros(len(track_points)) *)
BuildIndex ==
    /\ pc = "index"
    /\ fire_tree' = KDTree(coords(fire_data))
    /\ risks' = [k \in 1..Len(track_points) |-> 0]
    /\ i' = 1
    /\ pc' = "score"
    /\ UNCHANGED <<fire_data_dir, now_year, track_points, years, year, matches,
                   fire_dfs, fire_data, visits, last>>
    /\ UNCHANGED <<pool_vars, web_vars>>

(* no `continue`: the point gets the value computed for the point before *)
SkipPoint_stale ==
    /\ pc = "score"
    /\ i <= Len(track_points)
    /\ query_ball_point(fire_tree, point_coord(track_points[i]), SEARCH_RADIUS) = {}
    /\ risks' = IF i > 1 THEN [risks EXCEPT ![i] = risks[i - 1]] ELSE risks
    /\ i' = i + 1
    /\ UNCHANGED <<fire_data_dir, now_year, pc, track_points, years, year, matches,
                   fire_dfs, fire_data, fire_tree, visits, last>>
    /\ UNCHANGED <<pool_vars, web_vars>>

(* loop body, `if not indices: continue` *)
SkipPoint ==
    /\ pc = "score"
    /\ i <= Len(track_points)
    /\ query_ball_point(fire_tree, point_coord(track_points[i]), SEARCH_RADIUS) = {}
    /\ i' = i + 1
    /\ UNCHANGED <<fire_data_dir, now_year, pc, track_points, years, year, matches,
                   fire_dfs, fire_data, fire_tree, risks, visits, last>>
    /\ UNCHANGED <<pool_vars, web_vars>>

(* the loop reads the point before the one it scores *)
ScorePoint_shifted ==
    /\ pc = "score"
    /\ i <= Len(track_points)
    /\ LET x == point_coord(track_points[IF i > 1 THEN i - 1 ELSE i])
           indices == query_ball_point(fire_tree, x, SEARCH_RADIUS)
       IN /\ indices # {}
          /\ risks' = [risks EXCEPT ![i] = clip(risk_score(fire_data, indices, x), 0, Unit)]
    /\ i' = i + 1
    /\ UNCHANGED <<fire_data_dir, now_year, pc, track_points, years, year, matches,
                   fire_dfs, fire_data, fire_tree, visits, last>>
    /\ UNCHANGED <<pool_vars, web_vars>>

(* loop body with detections in range *)
ScorePoint ==
    /\ pc = "score"
    /\ i <= Len(track_points)
    /\ LET x == point_coord(track_points[i])
           indices == query_ball_point(fire_tree, x, SEARCH_RADIUS)
       IN /\ indices # {}
          /\ risks' = [risks EXCEPT ![i] = clip(risk_score(fire_data, indices, x), 0, Unit)]
    /\ i' = i + 1
    /\ UNCHANGED <<fire_data_dir, now_year, pc, track_points, years, year, matches,
                   fire_dfs, fire_data, fire_tree, visits, last>>
    /\ UNCHANGED <<pool_vars, web_vars>>

(* return risks: the frame of the call ends *)
Return ==
    /\ pc = "score"
    /\ i > Len(track_points)
    /\ last' = [outcome |-> "returned", points |-> track_points, result |-> risks]
    /\ pc' = "idle"
    /\ track_points' = <<>>
    /\ year' = 0
    /\ fire_data' = NoFrame
    /\ fire_tree' = <<>>
    /\ risks' = <<>>
    /\ i' = 0
    /\ visits' = <<>>
    /\ UNCHANGED <<fire_data_dir, now_year, years, matches, fire_dfs>>
    /\ UNCHANGED <<pool_vars, web_vars>>

(* the ValueError of load_fire_data leaves calculate_fire_risk *)
Propagate ==
    /\ pc = "raised"
    /\ last' = [outcome |-> "raised", points |-> track_points, result |-> <<>>]
    /\ pc' = "idle"
    /\ track_points' = <<>>
    /\ year' = 0
    /\ fire_data' = NoFrame
    /\ fire_tree' = <<>>
    /\ risks' = <<>>
    /\ i' = 0
    /\ visits' = <<>>
    /\ UNCHANGED <<fire_data_dir, now_year, years, matches, fire_dfs>>
    /\ UNCHANGED <<pool_vars, web_vars>>

Next ==
    \/ \E points \in Tracks : Call(points)
    \/ NextYear
    \/ LoadFile
    \/ SkipEmpty
    \/ SkipError
    \/ RaiseEmpty
    \/ ReturnCorpus
    \/ BuildIndex
    \/ SkipPoint
    \/ ScorePoint
    \/ Return
    \/ Propagate

Spec == Init /\ [][Next]_vars

(* calculate_fire_risk takes whatever list it is passed: the same program  *)
(* with callers that also pass a point outside the coordinate domain       *)
(* (latitude 91.000), one data file at most in the directory               *)
OutPoint == Point(91000, 20001)

AnyTracks == UNION {[1..n -> {Point(10001, 20001), OutPoint}] : n \in 0..MaxPoints}

InitAny ==
    /\ Init
    /\ Len(fire_data_dir) <= 1

NextAny ==
    \/ \E points \in AnyTracks : Call(points)
    \/ NextYear
    \/ LoadFile
    \/ SkipEmpty
    \/ SkipError
    \/ RaiseEmpty
    \/ ReturnCorpus
    \/ BuildIndex
    \/ SkipPoint
    \/ ScorePoint
    \/ Return
    \/ Propagate

SpecAny == InitAny /\ [][NextAny]_vars

----------------------------------------------------------------------------
(* Several calculate_fire_risk calls at the same time, each with its own   *)
(* locals.  load_fire_data reads the files and writes nothing but its own  *)
(* locals: it is one step of the call that runs it.                        *)

CallIds == 1..MaxCalls

(* for file in glob(...): the frames kept from the files of one year *)
RECURSIVE frames_of_year(_, _)
frames_of_year(files, y) ==
    IF files = <<>> THEN <<>>
    ELSE LET r == read_file(read_csv(Head(files)), y)
         IN (IF r.status = "loaded" THEN <<r.df>> ELSE <<>>)
            \o frames_of_year(Tail(files), y)

(* for year in years *)
RECURSIVE frames_of_years(_, _)
frames_of_years(dir, ys) ==
    IF ys = <<>> THEN <<>>
    ELSE frames_of_year(glob(dir, Head(ys)), Head(ys)) \o frames_of_years(dir, Tail(ys))

load_fire_data(dir, now) ==
    LET dfs == frames_of_years(dir, year_range(now))
    IN IF dfs = <<>> THEN [status |-> "raised", df |-> NoFrame]
       ELSE [status |-> "returned", df |-> concat(dfs)]

NoLocals == [pc |-> "idle", track_points |-> <<>>, fire_data |-> NoFrame,
             fire_tree |-> <<>>, risks |-> <<>>, i |-> 0]

PoolNames == {Catalogue[1].name}

InitPool ==
    /\ fire_data_dir \in {<<>>, Listing(PoolNames)}
    /\ now_year = MaxYear
    /\ pc = "idle"
    /\ track_points = <<>>
    /\ years = <<>>
    /\ year = 0
    /\ matches = <<>>
    /\ fire_dfs = <<>>
    /\ fire_data = NoFrame
    /\ fire_tree = <<>>
    /\ risks = <<>>
    /\ i = 0
    /\ visits = <<>>
    /\ last = NoCall
    /\ workers = [w \in CallIds |-> NoLocals]
    /\ db = NoDb
    /\ request = NoRequest
    /\ response = NoResponse
    /\ last_effective = <<>>

PoolCall(w, points) ==
    /\ workers[w].pc = "idle"
    /\ workers' = [workers EXCEPT ![w] = [NoLocals EXCEPT !.pc = "load",
                                                          !.track_points = points]]
    /\ UNCHANGED <<env_vars, call_vars, web_vars>>

(* fire_data = load_fire_data() *)
PoolLoad(w) ==
    /\ workers[w].pc = "load"
    /\ LET r == load_fire_data(fire_data_dir, now_year)
       IN /\ r.status = "returned"
          /\ workers' = [workers EXCEPT ![w].fire_data = r.df, ![w].pc = "index"]
    /\ UNCHANGED <<env_vars, call_vars, web_vars>>

(* load_fire_data raises and the error leaves the call *)
PoolRaise(w) ==
    /\ workers[w].pc = "load"
    /\ load_fire_data(fire_data_dir, now_year).status = "raised"
    /\ workers' = [workers EXCEPT ![w].pc = "raised"]
    /\ UNCHANGED <<env_vars, call_vars, web_vars>>

PoolBuildIndex(w) ==
    /\ workers[w].pc = "index"
    /\ workers' = [workers EXCEPT
                      ![w].fire_tree = KDTree(coords(workers[w].fire_data)),
                      ![w].risks = [k \in 1..Len(workers[w].track_points) |-> 0],
                      ![w].i = 1,
                      ![w].pc = "score"]
    /\ UNCHANGED <<env_vars, call_vars, web_vars>>

PoolSkipPoint(w) ==
    /\ workers[w].pc = "score"
    /\ workers[w].i <= Len(workers[w].track_points)
    /\ query_ball_point(workers[w].fire_tree,
                        point_coord(workers[w].track_points[workers[w].i]),
                        SEARCH_RADIUS) = {}
    /\ workers' = [workers EXCEPT ![w].i = @ + 1]
    /\ UNCHANGED <<env_vars, call_vars, web_vars>>

(* risks is one array of the module, shared by the calls *)
PoolScorePoint_shared(w) ==
    /\ workers[w].pc = "score"
    /\ workers[w].i <= Len(workers[w].track_points)
    /\ LET me == workers[w]
           x == point_coord(me.track_points[me.i])
           indices == query_ball_point(me.fire_tree, x, SEARCH_RADIUS)
           score == clip(risk_score(me.fire_data, indices, x), 0, Unit)
       IN /\ indices # {}
          /\ workers' = [v \in CallIds |->
                IF v = w THEN [me EXCEPT !.risks[me.i] = score, !.i = @ + 1]
                ELSE IF me.i <= Len(workers[v].risks)
                     THEN [workers[v] EXCEPT !.risks[me.i] = score]
                     ELSE workers[v]]
    /\ UNCHANGED <<env_vars, call_vars, web_vars>>

PoolScorePoint(w) ==
    /\ workers[w].pc = "score"
    /\ workers[w].i <= Len(workers[w].track_points)
    /\ LET me == workers[w]
           x == point_coord(me.track_points[me.i])
           indices == query_ball_point(me.fire_tree, x, SEARCH_RADIUS)
       IN /\ indices # {}
          /\ workers' = [workers EXCEPT
                ![w].risks[me.i] = clip(risk_score(me.fire_data, indices, x), 0, Unit),
                ![w].i = @ + 1]
    /\ UNCHANGED <<env_vars, call_vars, web_vars>>

(* return risks *)
PoolReturn(w) ==
    /\ workers[w].pc = "score"
    /\ workers[w].i > Len(workers[w].track_points)
    /\ workers' = [workers EXCEPT ![w].pc = "done"]
    /\ UNCHANGED <<env_vars, call_vars, web_vars>>

NextPool ==
    \/ \E w \in CallIds : \E points \in Tracks : PoolCall(w, points)
    \/ \E w \in CallIds : PoolLoad(w)
    \/ \E w \in CallIds : PoolRaise(w)
    \/ \E w \in CallIds : PoolBuildIndex(w)
    \/ \E w \in CallIds : PoolSkipPoint(w)
    \/ \E w \in CallIds : PoolScorePoint(w)
    \/ \E w \in CallIds : PoolReturn(w)

SpecPool == InitPool /\ [][NextPool]_vars

----------------------------------------------------------------------------
(* The web application.  Every handler is an `async def` without an await  *)
(* between its reads and its commit, served by the one uvicorn process of  *)
(* main.py: a request is handled in one step.                              *)

(* Python's None: as a string field of a request body, and as the row no   *)
(* query found                                                             *)
None == "None"
NoRow == [id |-> 0]

(* pwd_context.hash / pwd_context.verify *)
Hash(password) == [kind |-> "bcrypt", of |-> password]
Verify(password, password_hash) == password_hash = Hash(password)

(* the session_id cookie of a request: absent, a string jwt.decode         *)
(* rejects, or the token create_session_token makes for a user id          *)
NoCookie == [kind |-> "absent", sub |-> 0]
BadToken == [kind |-> "invalid", sub |-> 0]
create_session_token(sub) == [kind |-> "jwt", sub |-> sub]

(* the cookies a client can send: login gives a token to existing users *)
Cookies(d) == {NoCookie, BadToken}
                \cup {create_session_token(d.users[k].id) : k \in 1..Len(d.users)}

AllCookies == {NoCookie, BadToken} \cup {create_session_token(id) : id \in 1..MaxUsers + 1}

(* db.query(...).filter(...).first(): the first of the rows that pass the *)
(* filter, or None                                                         *)
First(rows) == IF Len(rows) > 0 THEN rows[1] ELSE NoRow

get_user(d, user_id) == First(SelectSeq(d.users, LAMBDA u : u.id = user_id))
get_user_by_email(d, email) == First(SelectSeq(d.users, LAMBDA u : u.email = email))
get_user_by_username(d, username) ==
    First(SelectSeq(d.users, LAMBDA u : u.username = username))

(* the row of `obj` replaced by `new` *)
Update(rows, obj, new) == [k \in 1..Len(rows) |-> IF rows[k].id = obj.id THEN new ELSE rows[k]]

create_user(d, user) ==
    [d EXCEPT !.users = Append(@, [id |-> Len(d.users) + 1,
                                   username |-> user.username,
                                   email |-> user.email,
                                   password_hash |-> Hash(user.password),
                                   is_admin |-> FALSE,
                                   is_active |-> TRUE])]

update_user(d, user_data, current_user) ==
    LET u1 == IF user_data.username # None
              THEN [current_user EXCEPT !.username = user_data.username] ELSE current_user
        u2 == IF user_data.email # None THEN [u1 EXCEPT !.email = user_data.email] ELSE u1
        u3 == IF user_data.password # None
              THEN [u2 EXCEPT !.password_hash = Hash(user_data.password)] ELSE u2
    IN [d EXCEPT !.users = Update(@, current_user, u3)]

(* the dependency get_current_user of main.py: no cookie gives None, a     *)
(* cookie gives the user of its subject or an HTTP error                   *)
get_current_user(d, session_id) ==
    IF session_id.kind = "absent" THEN [status |-> 200, user |-> NoRow]
    ELSE IF session_id.kind = "invalid" THEN [status |-> 401, user |-> NoRow]
    ELSE IF get_user(d, session_id.sub) = NoRow THEN [status |-> 404, user |-> NoRow]
    ELSE [status |-> 200, user |-> get_user(d, session_id.sub)]

Answer(status, detail) == [status |-> status, detail |-> detail]

Emails == {"a@x", "b@x"}
Usernames == {"ann", "bob"}
Passwords == {"p1", "p2"}

UserCreate == [email : Emails, username : Usernames, password : Passwords]

UserUpdate == [email : Emails \cup {None}, username : Usernames \cup {None},
               password : Passwords \cup {None}]

(* POST /register *)
register_user(user) ==
    /\ request' = [op |-> "register_user", session_id |-> NoCookie, body |-> user]
    /\ IF get_user_by_email(db, user.email) # NoRow
       THEN /\ response' = Answer(400, "email exists")
            /\ db' = db
       ELSE IF get_user_by_username(db, user.username) # NoRow
       THEN /\ response' = Answer(400, "username taken")
            /\ db' = db
       ELSE /\ Len(db.users) < MaxUsers
            /\ response' = Answer(200, "user")
            /\ db' = create_user(db, user)
    /\ UNCHANGED <<env_vars, call_vars, pool_vars, last_effective>>

(* the check of the username left out *)
update_current_user_unchecked(session_id, user_data) ==
    /\ session_id \in Cookies(db)
    /\ request' = [op |-> "update_current_user", session_id |-> session_id,
                   body |-> user_data]
    /\ LET dep == get_current_user(db, session_id)
           current_user == dep.user
       IN IF dep.status # 200
          THEN /\ response' = Answer(dep.status, "get_current_user")
               /\ db' = db
          ELSE IF current_user = NoRow
          THEN /\ response' = Answer(500, "AttributeError")
               /\ db' = db
          ELSE IF /\ user_data.email # None
                  /\ user_data.email # current_user.email
                  /\ get_user_by_email(db, user_data.email) # NoRow
          THEN /\ response' = Answer(400, "email exists")
               /\ db' = db
          ELSE /\ response' = Answer(200, "user")
               /\ db' = update_user(db, user_data, current_user)
    /\ UNCHANGED <<env_vars, call_vars, pool_vars, last_effective>>

(* PUT /users/me.  With current_user None every path ends in an attribute  *)
(* access on None (or db.refresh(None)) before anything is written.        *)
update_current_user(session_id, user_data) ==
    /\ session_id \in Cookies(db)
    /\ request' = [op |-> "update_current_user", session_id |-> session_id,
                   body |-> user_data]
    /\ LET dep == get_current_user(db, session_id)
           current_user == dep.user
       IN IF dep.status # 200
          THEN /\ response' = Answer(dep.status, "get_current_user")
               /\ db' = db
          ELSE IF current_user = NoRow
          THEN /\ response' = Answer(500, "AttributeError")
               /\ db' = db
          ELSE IF /\ user_data.email # None
                  /\ user_data.email # current_user.email
                  /\ get_user_by_email(db, user_data.email) # NoRow
          THEN /\ response' = Answer(400, "email exists")
               /\ db' = db
          ELSE IF /\ user_data.username # None
                  /\ user_data.username # current_user.username
                  /\ get_user_by_username(db, user_data.username) # NoRow
          THEN /\ response' = Answer(400, "username exists")
               /\ db' = db
          ELSE /\ response' = Answer(200, "user")
               /\ db' = update_user(db, user_data, current_user)
    /\ UNCHANGED <<env_vars, call_vars, pool_vars, last_effective>>

(* the locals of the fire-risk engine, at rest *)
NoScoring ==
    /\ fire_data_dir = <<>>
    /\ now_year = StopYear + 1
    /\ pc = "idle"
    /\ track_points = <<>>
    /\ years = <<>>
    /\ year = 0
    /\ matches = <<>>
    /\ fire_dfs = <<>>
    /\ fire_data = NoFrame
    /\ fire_tree = <<>>
    /\ risks = <<>>
    /\ i = 0
    /\ visits = <<>>
    /\ last = NoCall
    /\ workers = <<>>

(* an empty database *)
InitUsers ==
    /\ NoScoring
    /\ db = NoDb
    /\ request = NoRequest
    /\ response = NoResponse
    /\ last_effective = <<>>

NextUsers ==
    \/ \E user \in UserCreate : register_user(user)
    \/ \E session_id \in AllCookies : \E user_data \in UserUpdate :
          update_current_user(session_id, user_data)

SpecUsers == InitUsers /\ [][NextUsers]_vars

----------------------------------------------------------------------------
(* Tracks.  A track row keeps the columns the handlers below read or       *)
(* write: id, user_id, title, description.                                 *)

get_track(d, track_id) == First(SelectSeq(d.tracks, LAMBDA t : t.id = track_id))

(* crud.update_track *)
crud_update_track(d, track_id, track_data) ==
    LET db_track == get_track(d, track_id)
        t1 == IF track_data.title \notin {None, ""}
              THEN [db_track EXCEPT !.title = track_data.title] ELSE db_track
        t2 == IF track_data.description # None
              THEN [t1 EXCEPT !.description = track_data.description] ELSE t1
    IN IF db_track = NoRow THEN d
       ELSE [d EXCEPT !.tracks = Update(@, db_track, t2)]

(* crud.create_track_with_points: the track row, one row per point, and    *)
(* the image row (upload_track always passes the non-empty bytes(1))       *)
create_track_with_points(d, track_data, points, user_id) ==
    LET id == d.tracks_autoincrement
    IN [d EXCEPT
          !.tracks_autoincrement = @ + 1,
          !.tracks = Append(@, [id |-> id, user_id |-> user_id,
                                title |-> track_data.title,
                                description |-> track_data.description]),
          !.track_points = @ \o [k \in 1..Len(points) |->
                                   [id |-> Len(d.track_points) + k, track_id |-> id,
                                    point_index |-> k - 1,
                                    latitude |-> points[k].latitude,
                                    longitude |-> points[k].longitude]],
          !.track_images = Append(@, [id |-> Len(d.track_images) + 1, track_id |-> id])]

(* the rows of a table that belong to a track *)
RowsOf(rows, track_id) == {k \in 1..Len(rows) : rows[k].track_id = track_id}

(* Track.points, Track.forecasts, Track.comments, Track.images: the        *)
(* relationships of models.py, none with a delete cascade                  *)
HasRelated(d, track_id) ==
    \/ RowsOf(d.track_points, track_id) # {}
    \/ RowsOf(d.fire_forecasts, track_id) # {}
    \/ RowsOf(d.comments, track_id) # {}
    \/ RowsOf(d.track_images, track_id) # {}

(* Favorite rows hold a foreign key to tracks.id and no relationship *)
HasFavorite(d, track_id) == \E f \in BagToSet(d.favorites) : f.track_id = track_id

(* crud.delete_track: db.delete(track); db.commit().  The flush first      *)
(* sets track_id of the related rows to NULL, which their NOT NULL column  *)
(* refuses, and the DELETE itself is refused while a favorites row refers  *)
(* to the track: IntegrityError, the transaction is rolled back.           *)
crud_delete_track(d, track_id) ==
    IF HasRelated(d, track_id) \/ HasFavorite(d, track_id)
    THEN [error |-> "IntegrityError", db |-> d]
    ELSE [error |-> "",
          db |-> [d EXCEPT !.tracks = SelectSeq(@, LAMBDA t : t.id # track_id)]]

Titles == {"", "t1"}
NewTitles == {"", "t2", None}
Descriptions == {None, "d1"}

(* an uploaded file: its name ends in .gpx or not, and the points          *)
(* gpx_utils.parse_gpx finds in it                                         *)
GpxFiles == {[gpx |-> TRUE, points |-> <<Point(10001, 20001)>>],
             [gpx |-> TRUE, points |-> <<>>],
             [gpx |-> FALSE, points |-> <<Point(10001, 20001)>>]}

TrackUpdate == [title : NewTitles, description : Descriptions]

TrackIds == 1..MaxTracks + 1

(* POST /tracks/upload.  The handler awaits file.read() before it touches *)
(* the database; nothing it has read by then is a row another request can  *)
(* change, so the step is taken at its commit.                             *)
upload_track(session_id, title, description, file) ==
    /\ session_id \in Cookies(db)
    /\ request' = [op |-> "upload_track", session_id |-> session_id, track_id |-> 0,
                   body |-> [title |-> title, description |-> description, file |-> file]]
    /\ LET dep == get_current_user(db, session_id)
           current_user == dep.user
       IN IF dep.status # 200
          THEN /\ response' = Answer(dep.status, "get_current_user")
               /\ db' = db
          ELSE IF ~file.gpx
          THEN /\ response' = Answer(400, "not .gpx")
               /\ db' = db
          ELSE IF title = ""
          THEN /\ response' = Answer(400, "empty title")
               /\ db' = db
          ELSE IF Len(file.points) = 0
          THEN /\ response' = Answer(400, "no point")
               /\ db' = db
          ELSE IF current_user = NoRow
          THEN /\ response' = Answer(500, "AttributeError")
               /\ db' = db
          ELSE /\ Len(db.tracks) < MaxTracks
               /\ response' = Answer(200, "track")
               /\ db' = create_track_with_points(
                            db, [title |-> title, description |-> description],
                            file.points, current_user.id)
    /\ UNCHANGED <<env_vars, call_vars, pool_vars, last_effective>>

(* the test of the owner left out *)
update_track_any_user(session_id, track_id, track_data) ==
    /\ session_id \in Cookies(db)
    /\ request' = [op |-> "update_track", session_id |-> session_id,
                   track_id |-> track_id, body |-> track_data]
    /\ LET dep == get_current_user(db, session_id)
           current_user == dep.user
           track == get_track(db, track_id)
       IN IF dep.status # 200
          THEN /\ response' = Answer(dep.status, "get_current_user")
               /\ db' = db
          ELSE IF track = NoRow
          THEN /\ response' = Answer(404, "no track or no right")
               /\ db' = db
          ELSE IF track_data.title \in {None, ""}
          THEN /\ response' = Answer(400, "empty title")
               /\ db' = db
          ELSE /\ response' = Answer(200, "track")
               /\ db' = crud_update_track(db, track_id, track_data)
    /\ UNCHANGED <<env_vars, call_vars, pool_vars, last_effective>>

(* PUT /tracks/{track_id}.  Without a cookie current_user is None and      *)
(* `current_user.id` raises as soon as the track exists.                   *)
update_track(session_id, track_id, track_data) ==
    /\ session_id \in Cookies(db)
    /\ request' = [op |-> "update_track", session_id |-> session_id,
                   track_id |-> track_id, body |-> track_data]
    /\ LET dep == get_current_user(db, session_id)
           current_user == dep.user
           track == get_track(db, track_id)
       IN IF dep.status # 200
          THEN /\ response' = Answer(dep.status, "get_current_user")
               /\ db' = db
          ELSE IF track = NoRow
          THEN /\ response' = Answer(404, "no track or no right")
               /\ db' = db
          ELSE IF current_user = NoRow
          THEN /\ response' = Answer(500, "AttributeError")
               /\ db' = db
          ELSE IF track.user_id # current_user.id /\ ~current_user.is_admin
          THEN /\ response' = Answer(404, "no track or no right")
               /\ db' = db
          ELSE IF track_data.title \in {None, ""}
          THEN /\ response' = Answer(400, "empty title")
               /\ db' = db
          ELSE /\ response' = Answer(200, "track")
               /\ db' = crud_update_track(db, track_id, track_data)
    /\ UNCHANGED <<env_vars, call_vars, pool_vars, last_effective>>

(* DELETE /tracks/{track_id} *)
delete_track(session_id, track_id) ==
    /\ session_id \in Cookies(db)
    /\ request' = [op |-> "delete_track", session_id |-> session_id,
                   track_id |-> track_id, body |-> None]
    /\ LET dep == get_current_user(db, session_id)
           current_user == dep.user
           track == get_track(db, track_id)
       IN IF dep.status # 200
          THEN /\ response' = Answer(dep.status, "get_current_user")
               /\ db' = db
          ELSE IF track = NoRow
          THEN /\ response' = Answer(404, "refused")
               /\ db' = db
          ELSE IF current_user = NoRow
          THEN /\ response' = Answer(500, "AttributeError")
               /\ db' = db
          ELSE IF track.user_id # current_user.id /\ ~current_user.is_admin
          THEN /\ response' = Answer(404, "refused")
               /\ db' = db
          ELSE LET r == crud_delete_track(db, track_id)
               IN /\ response' = (IF r.error = "" THEN Answer(200, "deleted")
                                  ELSE Answer(500, r.error))
                  /\ db' = r.db
    /\ UNCHANGED <<env_vars, call_vars, pool_vars, last_effective>>

(* a user row, as create_user writes it *)
User(id, username, email, is_admin) ==
    [id |-> id, username |-> username, email |-> email,
     password_hash |-> Hash("p1"), is_admin |-> is_admin, is_active |-> TRUE]

(* two registered users and an administrator *)
SeedUsers == << User(1, "ann", "a@x", FALSE), User(2, "bob", "b@x", FALSE),
                User(3, "root", "r@x", TRUE) >>

InitTracks ==
    /\ NoScoring
    /\ db = [NoDb EXCEPT !.users = SeedUsers]
    /\ request = NoRequest
    /\ response = NoResponse
    /\ last_effective = <<>>

NextTracks ==
    \/ \E session_id \in AllCookies : \E title \in Titles : \E file \in GpxFiles :
          upload_track(session_id, title, None, file)
    \/ \E session_id \in AllCookies : \E track_id \in TrackIds :
          \E track_data \in TrackUpdate : update_track(session_id, track_id, track_data)
    \/ \E session_id \in AllCookies : \E track_id \in TrackIds :
          delete_track(session_id, track_id)

SpecTracks == InitTracks /\ [][NextTracks]_vars

----------------------------------------------------------------------------
(* Favorites.  The table is a bag of rows: the model does not lean on the  *)
(* composite primary key of Favorite to keep the rows apart.               *)

Favorite(user_id, track_id) == [user_id |-> user_id, track_id |-> track_id]

(* db.query(Favorite).filter(user_id ==, track_id ==).first() *)
first_favorite(d, user_id, track_id) ==
    IF BagIn(Favorite(user_id, track_id), d.favorites)
    THEN Favorite(user_id, track_id) ELSE NoRow

(* crud.is_favorite *)
is_favorite(d, user_id, track_id) == first_favorite(d, user_id, track_id) # NoRow

(* the users and tracks the favorites calls are made for *)
FavUsers == {1, 2}
FavTracks == {1, 2}

(* the history of the calls: per pair, the last call that changed the table *)
Effective(d, e, user_id, track_id, what) ==
    IF e # d THEN [last_effective EXCEPT ![<<user_id, track_id>>] = what]
    ELSE last_effective

(* the test for an existing row left out *)
add_to_favorites_unchecked(user_id, track_id) ==
    /\ request' = [op |-> "add_to_favorites", user_id |-> user_id, track_id |-> track_id]
    /\ db' = [db EXCEPT !.favorites = @ (+) SetToBag({Favorite(user_id, track_id)})]
    /\ response' = [returned |-> Favorite(user_id, track_id)]
    /\ last_effective' = Effective(db, db', user_id, track_id, "add")
    /\ UNCHANGED <<env_vars, call_vars, pool_vars>>

(* crud.add_to_favorites *)
add_to_favorites(user_id, track_id) ==
    /\ request' = [op |-> "add_to_favorites", user_id |-> user_id, track_id |-> track_id]
    /\ LET existing_fav == first_favorite(db, user_id, track_id)
       IN IF existing_fav # NoRow
          THEN /\ db' = db
               /\ response' = [returned |-> existing_fav]
          ELSE /\ db' = [db EXCEPT !.favorites =
                                     @ (+) SetToBag({Favorite(user_id, track_id)})]
               /\ response' = [returned |-> Favorite(user_id, track_id)]
    /\ last_effective' = Effective(db, db', user_id, track_id, "add")
    /\ UNCHANGED <<env_vars, call_vars, pool_vars>>

(* crud.remove_from_favorites *)
remove_from_favorites(user_id, track_id) ==
    /\ request' = [op |-> "remove_from_favorites", user_id |-> user_id,
                   track_id |-> track_id]
    /\ LET fav == first_favorite(db, user_id, track_id)
       IN IF fav # NoRow
          THEN /\ db' = [db EXCEPT !.favorites = @ (-) SetToBag({fav})]
               /\ response' = [returned |-> TRUE]
          ELSE /\ db' = db
               /\ response' = [returned |-> FALSE]
    /\ last_effective' = Effective(db, db', user_id, track_id, "remove")
    /\ UNCHANGED <<env_vars, call_vars, pool_vars>>

(* a call of crud.is_favorite *)
call_is_favorite(user_id, track_id) ==
    /\ request' = [op |-> "is_favorite", user_id |-> user_id, track_id |-> track_id]
    /\ response' = [returned |-> is_favorite(db, user_id, track_id)]
    /\ UNCHANGED <<env_vars, call_vars, pool_vars, db, last_effective>>

(* two tracks, uploaded by the first two users *)
SeedTracks ==
    create_track_with_points(
        create_track_with_points([NoDb EXCEPT !.users = SeedUsers],
                                 [title |-> "t1", description |-> None],
                                 <<Point(10001, 20001)>>, 1),
        [title |-> "t1", description |-> None], <<Point(10001, 20001)>>, 2)

InitFav ==
    /\ NoScoring
    /\ db = SeedTracks
    /\ request = NoRequest
    /\ response = NoResponse
    /\ last_effective = [p \in FavUsers \X FavTracks |-> "none"]

NextFav ==
    \/ \E user_id \in FavUsers : \E track_id \in FavTracks :
          add_to_favorites(user_id, track_id)
    \/ \E user_id \in FavUsers : \E track_id \in FavTracks :
          remove_from_favorites(user_id, track_id)
    \/ \E user_id \in FavUsers : \E track_id \in FavTracks :
          call_is_favorite(user_id, track_id)

SpecFav == InitFav /\ [][NextFav]_vars

----------------------------------------------------------------------------
(* Login and administration. *)

(* security.verify_session_token: the subject of a token, or an HTTP error *)
verify_session_token(session_id) ==
    IF session_id.kind = "jwt" THEN [status |-> 200, user_id |-> session_id.sub]
    ELSE [status |-> 401, user_id |-> 0]

(* crud.authenticate_user: the user, or False (here NoRow) *)
authenticate_user(d, email, password) ==
    LET user == get_user_by_email(d, email)
    IN IF user = NoRow THEN NoRow
       ELSE IF ~Verify(password, user.password_hash) THEN NoRow
       ELSE user

(* crud.update_user_active: the row after the change, or None *)
crud_update_user_active(d, user_id, is_active) ==
    LET user == get_user(d, user_id)
    IN IF user # NoRow
       THEN [d EXCEPT !.users = Update(@, user, [user EXCEPT !.is_active = is_active])]
       ELSE d

(* .offset(skip).limit(limit) *)
OffsetLimit(rows, skip, limit) ==
    SubSeq(rows, skip + 1, IF skip + limit < Len(rows) THEN skip + limit ELSE Len(rows))

(* crud.get_all_users; user_id 0 stands for the default None, and like it  *)
(* is falsy                                                                *)
crud_get_all_users(d, skip, limit, user_id) ==
    IF user_id # 0
    THEN SelectSeq(d.users, LAMBDA u : u.id # user_id)
    ELSE OffsetLimit(d.users, skip, limit)

UserLogin == [email : Emails \cup {"r@x", "nobody@x"}, password : Passwords]
UserIds == 1..MaxUsers + 2
Skips == {0, 1}
Limits == {1, 2}

(* the test of is_active left out *)
login_inactive_too(user) ==
    /\ request' = [op |-> "login", session_id |-> NoCookie, body |-> user]
    /\ LET db_user == authenticate_user(db, user.email, user.password)
       IN IF db_user = NoRow
          THEN response' = [status |-> 401, detail |-> "wrong data",
                            set_cookie |-> NoCookie]
          ELSE response' = [status |-> 200, detail |-> "login",
                            set_cookie |-> create_session_token(db_user.id)]
    /\ UNCHANGED <<env_vars, call_vars, pool_vars, db, last_effective>>

(* POST /login *)
login(user) ==
    /\ request' = [op |-> "login", session_id |-> NoCookie, body |-> user]
    /\ LET db_user == authenticate_user(db, user.email, user.password)
       IN IF db_user = NoRow
          THEN response' = [status |-> 401, detail |-> "wrong data",
                            set_cookie |-> NoCookie]
          ELSE IF ~db_user.is_active
          THEN response' = [status |-> 401, detail |-> "deactivated",
                            set_cookie |-> NoCookie]
          ELSE response' = [status |-> 200, detail |-> "login",
                            set_cookie |-> create_session_token(db_user.id)]
    /\ UNCHANGED <<env_vars, call_vars, pool_vars, db, last_effective>>

(* PUT /admin/users/{user_id}/active *)
update_user_active(session_id, user_id, is_active) ==
    /\ session_id \in Cookies(db)
    /\ request' = [op |-> "update_user_active", session_id |-> session_id,
                   user_id |-> user_id, body |-> [is_active |-> is_active]]
    /\ LET dep == get_current_user(db, session_id)
           current_user == dep.user
       IN IF dep.status # 200
          THEN /\ response' = Answer(dep.status, "get_current_user")
               /\ db' = db
          ELSE IF current_user = NoRow
          THEN /\ response' = Answer(500, "AttributeError")
               /\ db' = db
          ELSE IF ~current_user.is_admin /\ current_user.id # user_id
          THEN /\ response' = Answer(403, "no access")
               /\ db' = db
          ELSE IF get_user(db, user_id) = NoRow
          THEN /\ response' = Answer(404, "no user")
               /\ db' = db
          ELSE /\ response' = Answer(200, "user")
               /\ db' = crud_update_user_active(db, user_id, is_active)
    /\ UNCHANGED <<env_vars, call_vars, pool_vars, last_effective>>

(* GET /admin/users *)
get_all_users(session_id, skip, limit) ==
    /\ session_id \in Cookies(db)
    /\ request' = [op |-> "get_all_users", session_id |-> session_id,
                   skip |-> skip, limit |-> limit]
    /\ LET dep == get_current_user(db, session_id)
           current_user == dep.user
       IN IF dep.status # 200
          THEN response' = Answer(dep.status, "get_current_user")
          ELSE IF current_user = NoRow
          THEN response' = Answer(500, "AttributeError")
          ELSE IF ~current_user.is_admin
          THEN response' = Answer(403, "no access")
          ELSE response' = [status |-> 200, detail |-> "users",
                            users |-> crud_get_all_users(db, skip, limit,
                                                         current_user.id),
                            total |-> Len(db.users), skip |-> skip, limit |-> limit]
    /\ UNCHANGED <<env_vars, call_vars, pool_vars, db, last_effective>>

InitAdmin ==
    /\ NoScoring
    /\ db = [NoDb EXCEPT !.users = SeedUsers]
    /\ request = NoRequest
    /\ response = NoResponse
    /\ last_effective = <<>>

NextAdmin ==
    \/ \E user \in UserLogin : login(user)
    \/ \E session_id \in AllCookies : \E user_id \in UserIds : \E is_active \in BOOLEAN :
          update_user_active(session_id, user_id, is_active)
    \/ \E session_id \in AllCookies : \E skip \in Skips : \E limit \in Limits :
          get_all_users(session_id, skip, limit)

SpecAdmin == InitAdmin /\ [][NextAdmin]_vars

----------------------------------------------------------------------------
(* Properties *)

(* the loop over the track points has ended: `return risks` is next *)
Finished == pc = "score" /\ i > Len(track_points)

(* the previous call returned scores; it had the same data files and the  *)
(* same calendar year, hence the same corpus                              *)
SameCorpusAsLast == last.outcome = "returned"

(* squared planar distance, in 0.001 degree, between corpus row j and p *)
SqDist(df, j, p) ==
    (df.rows[j]["latitude"].val - p.latitude) * (df.rows[j]["latitude"].val - p.latitude)
  + (df.rows[j]["longitude"].val - p.longitude) * (df.rows[j]["longitude"].val - p.longitude)

(* corpus rows within the search radius of p, by exhaustive scan *)
InRadius(df, p) ==
    {j \in 1..Len(df.rows) :
        /\ Abs(df.rows[j]["latitude"].val - p.latitude) <= SEARCH_RADIUS
        /\ Abs(df.rows[j]["longitude"].val - p.longitude) <= SEARCH_RADIUS
        /\ SqDist(df, j, p) <= SEARCH_RADIUS * SEARCH_RADIUS}

NearPoint == Point(10001, 20001)
FarPoint == Point(0, 0)

(* latitude in [-90, 90] and longitude in [-180, 180] *)
InDomain(p) ==
    /\ -90000 <= p.latitude /\ p.latitude <= 90000
    /\ -180000 <= p.longitude /\ p.longitude <= 180000

(* C1: every score calculate_fire_risk holds or has returned lies in      *)
(* [0.0, 1.0], also when the weighted sum is above 1 or below 0.          *)
C1_ScoreInUnitInterval ==
    /\ \A k \in 1..Len(risks) : 0 <= risks[k] /\ risks[k] <= Unit
    /\ \A k \in 1..Len(last.result) : 0 <= last.result[k] /\ last.result[k] <= Unit

(* 11 coincident high-power detections at one point (weighted sum above   *)
(* 1, score 1.0), one cold powerless detection at the edge of the radius   *)
(* of the other (weighted sum below 0, score 0.0)                          *)
C1_Witness ==
    /\ Finished
    /\ track_points = <<NearPoint, FarPoint>>
    /\ risks = <<Unit, 0>>
    /\ InRadius(fire_data, NearPoint) # {}
    /\ InRadius(fire_data, FarPoint) # {}
    /\ risk_score(fire_data, InRadius(fire_data, NearPoint), point_coord(NearPoint)) > Unit
    /\ risk_score(fire_data, InRadius(fire_data, FarPoint), point_coord(FarPoint)) < 0

(* C2: in the scores about to be returned, a point with no corpus         *)
(* detection within the search radius has score exactly 0.0.               *)
C2_NoDetectionGivesZero ==
    Finished =>
        \A k \in 1..Len(track_points) :
            InRadius(fire_data, track_points[k]) = {} => risks[k] = 0

C2_Witness ==
    /\ Finished
    /\ \E k, m \in 1..Len(track_points) :
          /\ track_points[k] = FarPoint
          /\ InRadius(fire_data, track_points[k]) = {}
          /\ risks[k] = 0
          /\ m < k
          /\ risks[m] > 0

(* C3: the result has one element per track point, for every size, and    *)
(* the element of a point is the same wherever the point stands, in this   *)
(* call or in the previous call against the same corpus.                   *)
C3_PositionallyAligned ==
    /\ pc = "score" => Len(risks) = Len(track_points)
    /\ last.outcome = "returned" => Len(last.result) = Len(last.points)
    /\ Finished =>
          \A k, m \in 1..Len(track_points) :
              track_points[k] = track_points[m] => risks[k] = risks[m]
    /\ (Finished /\ SameCorpusAsLast) =>
          \A k \in 1..Len(track_points) : \A m \in 1..Len(last.points) :
              track_points[k] = last.points[m] => risks[k] = last.result[m]

(* the same two points in the opposite order, after an empty track *)
C3_Witness ==
    /\ Finished
    /\ SameCorpusAsLast
    /\ Len(track_points) = 2
    /\ last.points = <<track_points[2], track_points[1]>>
    /\ risks[1] # risks[2]
    /\ last.result = <<risks[2], risks[1]>>

(* C4: a second call with the same data files and the same points returns *)
(* the same scores as the first.                                           *)
C4_Idempotent ==
    /\ (Finished /\ SameCorpusAsLast /\ last.points = track_points)
          => risks = last.result
    /\ SameCorpusAsLast => pc # "raised"
    /\ last.outcome = "raised" => pc \notin {"index", "score"}

C4_Witness ==
    /\ Finished
    /\ SameCorpusAsLast
    /\ last.points = track_points
    /\ risks = last.result
    /\ \E k \in 1..Len(risks) : 0 < risks[k] /\ risks[k] < Unit

(* The factors as the specification states them, over a set M of corpus   *)
(* rows                                                                    *)
ClaimedCount(df, M) ==
    IF Cardinality(M) >= 20 THEN Unit ELSE (Cardinality(M) * Unit) \div 20

ClaimedIntensity(df, M) ==
    (((SumOver([j \in M |-> df.rows[j]["frp"].val], M) * 1000) \div Cardinality(M)) * 100)
        \div 50

ClaimedBrightness(df, M) ==
    ((((SumOver([j \in M |-> df.rows[j]["brightness"].val], M) * 1000) \div Cardinality(M))
        - 300000) * 100) \div 200

ClaimedMinDistance(df, M, p) ==
    LET squares == {SqDist(df, j, p) : j \in M}
    IN ISqrt((CHOOSE q \in squares : \A r \in squares : q <= r) * 10000)

ClaimedProximity(df, M, p) == ((5000 - ClaimedMinDistance(df, M, p)) * Unit) \div 5000

(* M: the detections within the radius of p *)
ClaimedScore(df, M, p) ==
    LET w == ( 4 * ClaimedCount(df, M) + 3 * ClaimedIntensity(df, M)
             + 2 * ClaimedBrightness(df, M) + ClaimedProximity(df, M, p) ) \div 10
    IN IF w < 0 THEN 0 ELSE IF w > Unit THEN Unit ELSE w

IsExampleCorpus(df) ==
    /\ Len(df.rows) = 1
    /\ df.rows[1]["latitude"].val = 10000
    /\ df.rows[1]["longitude"].val = 20000
    /\ df.rows[1]["frp"].val = 50
    /\ df.rows[1]["brightness"].val = 400

(* C5: the score of a point with detections in range is the clipped       *)
(* weighted sum 0.4 count + 0.3 intensity + 0.2 brightness + 0.1          *)
(* proximity over exactly the detections in range; one detection at       *)
(* (10.000, 20.000) with frp 50 and brightness 400 gives the point         *)
(* (10.001, 20.001) the factors 0.05, 1.0, 0.5, 0.9718 and score 0.51718.  *)
C5_WeightedSum ==
    Finished =>
        \A k \in 1..Len(track_points) : \A M \in {InRadius(fire_data, track_points[k])} :
            M # {} =>
                /\ risks[k] = ClaimedScore(fire_data, M, track_points[k])
                /\ (IsExampleCorpus(fire_data) /\ track_points[k] = NearPoint) =>
                      /\ ClaimedCount(fire_data, {1}) = 5000
                      /\ ClaimedIntensity(fire_data, {1}) = 100000
                      /\ ClaimedBrightness(fire_data, {1}) = 50000
                      /\ ClaimedProximity(fire_data, {1}, NearPoint) = 97180
                      /\ risks[k] = 51718

C5_Witness ==
    /\ Finished
    /\ IsExampleCorpus(fire_data)
    /\ track_points = <<FarPoint, NearPoint>>
    /\ risks = <<0, 51718>>

(* C6: count_factor is match_count/20 below 20 matches (0.5 for 10) and   *)
(* exactly 1.0 from 20 matches on; it enters the weighted sum of a scored  *)
(* point with weight 0.4, so that it contributes at most 0.4.              *)
C6_CountFactorSaturates ==
    Finished =>
        /\ \A n \in 0..Len(fire_data.rows) :
              /\ n < 20 => 20 * count_factor(n) = n * Unit
              /\ n >= 20 => count_factor(n) = Unit
              /\ n = 10 => 2 * count_factor(n) = Unit
        /\ \A k \in 1..Len(track_points) : \A M \in {InRadius(fire_data, track_points[k])} :
              M # {} =>
                  /\ 4 * count_factor(Cardinality(M)) <= 4 * Unit
                  /\ risks[k] = clip(( 4 * count_factor(Cardinality(M))
                                     + 3 * ClaimedIntensity(fire_data, M)
                                     + 2 * ClaimedBrightness(fire_data, M)
                                     + ClaimedProximity(fire_data, M, track_points[k]) ) \div 10,
                                     0, Unit)

(* ten matches at one point (0.2 + 0.3 + 0.1 + 0.09718), twenty at the    *)
(* other (0.4 + 0.3 + 0.1 + 0.1)                                           *)
C6_Witness ==
    /\ Finished
    /\ track_points = <<NearPoint, FarPoint>>
    /\ Cardinality(InRadius(fire_data, NearPoint)) = 10
    /\ Cardinality(InRadius(fire_data, FarPoint)) = 20
    /\ risks = <<69718, 90000>>

----------------------------------------------------------------------------
(* What the data files hold, read off the files without the loader *)

BrightnessCol(f) == IF "bright_ti4" \in f.cols THEN "bright_ti4" ELSE "brightness"
DateCol(f) == IF "acq_date" \in f.cols THEN "acq_date" ELSE "date"

(* the file can be read and has the five fields *)
Parses(f) ==
    /\ f.readable
    /\ {"latitude", "longitude", "frp", BrightnessCol(f), DateCol(f)} \subseteq f.cols

ValidRow(f, r) ==
    /\ \A c \in {"latitude", "longitude", "frp", BrightnessCol(f)} : f.rows[r][c].kind = "num"
    /\ f.rows[r][DateCol(f)].kind = "datetxt"

ValidRows(f) == {r \in 1..Len(f.rows) : ValidRow(f, r)}

Usable(f) == Parses(f) /\ ValidRows(f) # {}

HasToken(f, y) == Contains(f.name, YearDigits(y))

YearsInRange == 2015 .. now_year - 1

(* the files of the directory *)
Files == {read_csv(fire_data_dir[k]) : k \in 1..Len(fire_data_dir)}

NoUsableRow == \A f \in Files : \A y \in YearsInRange : ~(HasToken(f, y) /\ Usable(f))

(* load_fire_data has returned the corpus, bound to fire_data *)
Loaded == pc = "index"

(* load_fire_data has just ended, by return or by raise *)
LoadOver == pc = "raised" \/ Loaded

FileOf(name) == CHOOSE f \in Files : f.name = name

(* C7: when no usable row survives loading, load_fire_data raises and     *)
(* calculate_fire_risk ends there: no index, no query, no score, whatever  *)
(* the track points; it raises in no other case.                           *)
C7_EmptyCorpusRaises ==
    /\ pc = "raised" =>
          /\ NoUsableRow
          /\ fire_data = NoFrame /\ fire_tree = <<>> /\ risks = <<>> /\ i = 0
    /\ Loaded => ~NoUsableRow
    /\ last.outcome = "raised" => last.result = <<>>

C7_Witness ==
    /\ pc = "raised"
    /\ track_points = <<NearPoint, FarPoint>>
    /\ \E a, b \in 1..Len(visits) : visits[a].ev = "error" /\ visits[b].ev = "empty"

(* C8: a file that cannot be read or lacks a column is skipped: every     *)
(* matching file, also one after it, is still read, load_fire_data raises  *)
(* only if no file gave a row, and the valid rows of the files that        *)
(* loaded are all in the corpus.                                           *)
C8_BadFileSkipped ==
    LoadOver =>
        /\ \A f \in Files : \A y \in YearsInRange :
              HasToken(f, y) =>
                  \E e \in 1..Len(visits) :
                      /\ visits[e].year = y
                      /\ visits[e].name = f.name
                      /\ visits[e].ev = "error" <=> ~Parses(f)
                      /\ (Usable(f) /\ pc # "raised") =>
                            \A r \in ValidRows(f) :
                                \E j \in 1..Len(fire_data.rows) :
                                    /\ fire_data.rows[j]["year"].val = y
                                    /\ \A c \in {"latitude", "longitude", "frp"} :
                                          fire_data.rows[j][c].val = f.rows[r][c].val
                                    /\ fire_data.rows[j]["brightness"].val
                                          = f.rows[r][BrightnessCol(f)].val
                                    /\ fire_data.rows[j]["date"].val
                                          = f.rows[r][DateCol(f)].val
        /\ (\E f \in Files : \E y \in YearsInRange : HasToken(f, y) /\ Usable(f))
              => pc # "raised"

(* an unreadable file, then a file of the same year that loads *)
C8_Witness ==
    /\ pc = "index"
    /\ \E a, b \in 1..Len(visits) :
          /\ a < b
          /\ visits[a].ev = "error"
          /\ ~FileOf(visits[a].name).readable
          /\ visits[b].ev = "loaded"
          /\ visits[a].year = visits[b].year
    /\ Len(fire_data.rows) = 3

(* the six fields of a record *)
Fields(lat, lon, b, frp, d, y) == <<lat, lon, b, frp, d, y>>

Projection(df) ==
    [j \in 1..Len(df.rows) |->
        Fields(df.rows[j]["latitude"].val, df.rows[j]["longitude"].val,
               df.rows[j]["brightness"].val, df.rows[j]["frp"].val,
               df.rows[j]["date"].val, df.rows[j]["year"].val)]

(* the valid rows of f, in file order, as records of year y *)
ValidRecords(f, y) ==
    LET idx == SelectSeq([r \in 1..Len(f.rows) |-> r], LAMBDA r : ValidRow(f, r))
    IN [k \in 1..Len(idx) |->
          Fields(f.rows[idx[k]]["latitude"].val, f.rows[idx[k]]["longitude"].val,
                 f.rows[idx[k]][BrightnessCol(f)].val, f.rows[idx[k]]["frp"].val,
                 f.rows[idx[k]][DateCol(f)].val, y)]

RECURSIVE RecordsOfYear(_, _)
RecordsOfYear(dir, y) ==
    IF dir = <<>> THEN <<>>
    ELSE (IF HasToken(read_csv(Head(dir)), y) /\ Parses(read_csv(Head(dir)))
          THEN ValidRecords(read_csv(Head(dir)), y) ELSE <<>>)
         \o RecordsOfYear(Tail(dir), y)

RECURSIVE RecordsDownFrom(_, _)
RecordsDownFrom(dir, y) ==
    IF y < 2015 THEN <<>>
    ELSE RecordsOfYear(dir, y) \o RecordsDownFrom(dir, y - 1)

(* C9: every corpus record has numeric latitude, longitude, brightness    *)
(* and frp and a parsed date, and the corpus holds the valid rows of the   *)
(* files read and no other row: a file of 3 valid rows and 2 rows without  *)
(* frp, read once, gives exactly 3 detections.                             *)
C9_OnlyValidRows ==
    Loaded =>
        /\ \A j \in 1..Len(fire_data.rows) :
              /\ \A c \in NumericCols : fire_data.rows[j][c].kind = "num"
              /\ fire_data.rows[j]["date"].kind = "ts"
        /\ Projection(fire_data) = RecordsDownFrom(fire_data_dir, now_year - 1)
        /\ \A f \in Files :
              ( /\ Len(fire_data_dir) = 1
                /\ Parses(f)
                /\ Len(f.rows) = 5
                /\ Cardinality(ValidRows(f)) = 3
                /\ Cardinality({r \in 1..Len(f.rows) : f.rows[r]["frp"].kind # "num"}) = 2
                /\ Cardinality({y \in YearsInRange : HasToken(f, y)}) = 1 )
              => Len(fire_data.rows) = 3

C9_Witness ==
    /\ pc = "index"
    /\ Len(fire_data_dir) = 1
    /\ Len(read_csv(fire_data_dir[1]).rows) = 5
    /\ Cardinality({r \in 1..5 : read_csv(fire_data_dir[1]).rows[r]["frp"].kind # "num"}) = 2
    /\ Len(fire_data.rows) = 3

(* the years visited, in order *)
YearEvents == SelectSeq(visits, LAMBDA e : e.ev = "year")

RECURSIVE CountLoaded(_)
CountLoaded(vs) ==
    IF vs = <<>> THEN 0
    ELSE (IF Head(vs).ev = "loaded" THEN Cardinality(ValidRows(FileOf(Head(vs).name))) ELSE 0)
         + CountLoaded(Tail(vs))

(* the year event that a file event belongs to *)
YearAt(e) ==
    LET before == {a \in 1..e : visits[a].ev = "year"}
    IN visits[CHOOSE a \in before : \A b \in before : b <= a].year

(* C10: load_fire_data visits the years current_year-1 down to 2015, in   *)
(* that order, reads in each the files whose name holds the year's four    *)
(* digits and only those, and the corpus has no row of any other file.     *)
C10_YearsAndTokens ==
    LoadOver =>
        /\ Len(YearEvents) = (IF now_year > 2015 THEN now_year - 2015 ELSE 0)
        /\ \A k \in 1..Len(YearEvents) : YearEvents[k].year = now_year - k
        /\ \A e \in 1..Len(visits) :
              visits[e].ev # "year" =>
                  /\ visits[e].year = YearAt(e)
                  /\ HasToken(FileOf(visits[e].name), visits[e].year)
        /\ \A f \in Files : \A y \in YearsInRange :
              HasToken(f, y) =>
                  Cardinality({e \in 1..Len(visits) :
                                  /\ visits[e].ev # "year"
                                  /\ visits[e].year = y
                                  /\ visits[e].name = f.name}) = 1
        /\ Loaded => Len(fire_data.rows) = CountLoaded(visits)

(* with the data of 2014 and of the current year in the directory *)
C10_Witness ==
    /\ pc = "index"
    /\ now_year = 2017
    /\ Len(fire_data_dir) = 2
    /\ \A y \in YearsInRange : ~HasToken(read_csv(fire_data_dir[2]), y)
    /\ [k \in 1..Len(visits) |-> visits[k].ev] = <<"year", "loaded", "year", "loaded">>
    /\ Len(fire_data.rows) = 30

----------------------------------------------------------------------------
(* C11: a call with a track point outside the coordinate domain is        *)
(* rejected: it builds no score array, returns no scores, and the point    *)
(* never has the default score 0.0.                                        *)
C11_InvalidInputRejected ==
    /\ (\E k \in 1..Len(track_points) : ~InDomain(track_points[k]))
          => pc \notin {"score"}
    /\ \A k \in 1..Len(last.points) :
          ~InDomain(last.points[k]) => last.outcome # "returned"

(* C12: against an unchanged set of data files the loader runs once and   *)
(* the index is built once: after a call has returned its scores, no       *)
(* later call loads the files or builds an index again.                    *)
C12_LoadedOnce ==
    last.outcome = "returned" => pc \notin {"load", "index"}

(* the rows of df in the square of side 2 * SEARCH_RADIUS around p *)
InBox(df, p) ==
    {j \in 1..Len(df.rows) :
        /\ Abs(df.rows[j]["latitude"].val - p.latitude) <= SEARCH_RADIUS
        /\ Abs(df.rows[j]["longitude"].val - p.longitude) <= SEARCH_RADIUS}

(* the detections the index returns for p *)
Matched(p) == query_ball_point(fire_tree, point_coord(p), SEARCH_RADIUS)

(* C14: for every scored point with a matched detection, every matched    *)
(* detection is within the radius, proximity_factor is the complement of   *)
(* the nearest matched distance, lies in [0, 1], and is exactly 1.0 when   *)
(* a detection coincides with the point.                                   *)
C14_ProximityInUnitInterval ==
    Finished =>
        \A k \in 1..Len(track_points) : \A M \in {Matched(track_points[k])} :
            M # {} =>
                \A f \in {proximity_factor(fire_data, M, point_coord(track_points[k]))} :
                    /\ \A j \in M :
                          distances(fire_data, M, point_coord(track_points[k]))[j]
                              <= SEARCH_RADIUS * 100
                    /\ 0 <= f /\ f <= Unit
                    /\ f = ClaimedProximity(fire_data, M, track_points[k])
                    /\ (\E j \in M : SqDist(fire_data, j, track_points[k]) = 0) => f = Unit

(* a detection on the point itself, one 0.0014 degree away from the other *)
C14_Witness ==
    /\ Finished
    /\ track_points = <<FarPoint, NearPoint>>
    /\ Matched(FarPoint) # {}
    /\ Matched(NearPoint) # {}
    /\ \E j \in Matched(FarPoint) : SqDist(fire_data, j, FarPoint) = 0
    /\ proximity_factor(fire_data, Matched(FarPoint), point_coord(FarPoint)) = Unit
    /\ proximity_factor(fire_data, Matched(NearPoint), point_coord(NearPoint)) = 97180
    /\ risks[1] > 0 /\ risks[2] > 0

(* C15: for every track point the index returns exactly the corpus rows   *)
(* a scan finds at planar Euclidean distance at most 0.05 degree, the      *)
(* metric of the proximity distance, and the scores are those of the scan. *)
C15_QueryEqualsScan ==
    Finished =>
        \A k \in 1..Len(track_points) : \A M \in {Matched(track_points[k])} :
            /\ M = InRadius(fire_data, track_points[k])
            /\ \A j \in M :
                  distances(fire_data, M, point_coord(track_points[k]))[j]
                      <= SEARCH_RADIUS * 100
            /\ \A j \in InBox(fire_data, track_points[k]) \ M :
                  distances(fire_data, {j}, point_coord(track_points[k]))[j]
                      >= SEARCH_RADIUS * 100
            /\ risks[k] = (IF InRadius(fire_data, track_points[k]) = {} THEN 0
                           ELSE ClaimedScore(fire_data, InRadius(fire_data, track_points[k]),
                                             track_points[k]))

(* detections on the circle, inside it and 0.0006 degree outside it *)
C15_Witness ==
    /\ Finished
    /\ \E k \in 1..Len(track_points) :
          /\ Cardinality(Matched(track_points[k])) > 1
          /\ InBox(fire_data, track_points[k]) \ Matched(track_points[k]) # {}
          /\ \E j \in Matched(track_points[k]) :
                SqDist(fire_data, j, track_points[k]) = SEARCH_RADIUS * SEARCH_RADIUS
          /\ risks[k] > 0

(* C16: the year of every corpus record is the calendar year of its date. *)
C16_YearFromDate ==
    Loaded =>
        \A j \in 1..Len(fire_data.rows) :
            fire_data.rows[j]["year"].val = fire_data.rows[j]["date"].val \div 10000

(* what calculate_fire_risk(points) returns when it runs alone *)
Alone(points) ==
    LET df == load_fire_data(fire_data_dir, now_year).df
    IN [k \in 1..Len(points) |->
          LET x == point_coord(points[k])
              indices == query_ball_point(KDTree(coords(df)), x, SEARCH_RADIUS)
          IN IF indices = {} THEN 0 ELSE clip(risk_score(df, indices, x), 0, Unit)]

(* C13: under every interleaving of concurrent calls against the same     *)
(* files, a call that returns returns the scores it returns when run       *)
(* alone, and no step taken while a call is scoring changes the corpus or  *)
(* the index of that call, or the data files.                              *)
C13_ConcurrentCallsIndependent ==
    /\ [](\A w \in DOMAIN workers :
            workers[w].pc = "done" => workers[w].risks = Alone(workers[w].track_points))
    /\ [][\A w \in DOMAIN workers :
            workers[w].pc = "score" =>
                /\ workers'[w].fire_data = workers[w].fire_data
                /\ workers'[w].fire_tree = workers[w].fire_tree
                /\ fire_data_dir' = fire_data_dir]_vars

(* one call has returned while another, passed the same points in the     *)
(* opposite order, is between its two points                               *)
C13_Witness ==
    /\ DOMAIN workers = CallIds
    /\ workers[1].pc = "done"
    /\ workers[1].track_points = <<NearPoint, FarPoint>>
    /\ workers[1].risks = <<51718, 0>>
    /\ workers[2].pc = "score"
    /\ workers[2].track_points = <<FarPoint, NearPoint>>
    /\ workers[2].i = 2
    /\ workers[2].risks = <<0, 0>>

----------------------------------------------------------------------------
(* the user a request acts for, NoRow without a valid session *)
Requester(d, req) == get_current_user(d, req.session_id).user

(* the request, if obeyed in database d, would give two users one email   *)
(* or one username                                                         *)
WouldDuplicate(d, req) ==
    \/ /\ req.op = "register_user"
       /\ \E k \in 1..Len(d.users) :
             \/ d.users[k].email = req.body.email
             \/ d.users[k].username = req.body.username
    \/ /\ req.op = "update_current_user"
       /\ Requester(d, req) # NoRow
       /\ \E k \in 1..Len(d.users) :
             /\ d.users[k].id # Requester(d, req).id
             /\ \/ d.users[k].email = req.body.email
                \/ d.users[k].username = req.body.username

UniqueUsers ==
    \A a, b \in 1..Len(db.users) :
        a # b => /\ db.users[a].email # db.users[b].email
                 /\ db.users[a].username # db.users[b].username
                 /\ db.users[a].id # db.users[b].id

(* C19: after any sequence of POST /register and PUT /users/me requests   *)
(* no two users share an email or a username, and a request that would    *)
(* make a duplicate is answered 400 and changes no user.                   *)
C19_UniqueEmailAndUsername ==
    /\ []UniqueUsers
    /\ [][WouldDuplicate(db, request') => (response'.status = 400 /\ db' = db)]_vars

(* the second user asked for the username of the first *)
C19_Witness ==
    /\ Len(db.users) = 2
    /\ request.op = "update_current_user"
    /\ request.session_id = create_session_token(2)
    /\ request.body.email = None
    /\ request.body.username = db.users[1].username
    /\ response.status = 400

----------------------------------------------------------------------------
(* the request comes from the owner of the track it names, or an admin *)
Authorised(d, req) ==
    /\ Requester(d, req) # NoRow
    /\ get_track(d, req.track_id) # NoRow
    /\ \/ get_track(d, req.track_id).user_id = Requester(d, req).id
       \/ Requester(d, req).is_admin

(* C17: PUT /tracks/{id} changes a track and DELETE /tracks/{id} removes  *)
(* one only for its owner or an admin; from anyone else, or without a      *)
(* session cookie, the request changes nothing and is answered by an       *)
(* error; no other request changes or removes a track.                     *)
C17_OnlyOwnerOrAdmin ==
    [][ /\ request'.op \in {"update_track", "delete_track"} =>
             /\ db'.tracks # db.tracks => Authorised(db, request')
             /\ ~Authorised(db, request') => (db' = db /\ response'.status >= 400)
        /\ request'.op \notin {"update_track", "delete_track"} =>
             \A k \in 1..Len(db.tracks) :
                 k <= Len(db'.tracks) /\ db'.tracks[k] = db.tracks[k] ]_vars

(* the owner has renamed the track and the other user is refused *)
C17_Witness ==
    /\ Len(db.tracks) = 1
    /\ db.tracks[1].user_id = 1
    /\ db.tracks[1].title = "t2"
    /\ db.tracks[1].description = "d1"
    /\ request.op = "update_track"
    /\ request.session_id = create_session_token(2)
    /\ request.track_id = 1
    /\ request.body.title = "t2"
    /\ response.status = 404

(* the rows of any table that refer to the track *)
Linked(d, track_id) == HasRelated(d, track_id) \/ HasFavorite(d, track_id)

(* C18: a DELETE /tracks/{id} by the owner or an admin removes the track  *)
(* and every point, image, comment, favorite and forecast row of it.       *)
C18_DeleteRemovesLinkedRows ==
    [][ (request'.op = "delete_track" /\ Authorised(db, request')) =>
            /\ get_track(db', request'.track_id) = NoRow
            /\ ~Linked(db', request'.track_id) ]_vars

----------------------------------------------------------------------------
(* per pair: at most one row, and favorited exactly when the last call     *)
(* that changed the table for the pair was an add                          *)
FavoritesConsistent ==
    \A user_id \in FavUsers : \A track_id \in FavTracks :
        /\ CopiesIn(Favorite(user_id, track_id), db.favorites) <= 1
        /\ is_favorite(db, user_id, track_id)
              <=> last_effective[<<user_id, track_id>>] = "add"

(* C20: under every sequence of add_to_favorites and remove_from_favorites *)
(* calls a (user, track) pair has at most one Favorite row; adding a       *)
(* favorited track changes nothing and returns the existing row, removing  *)
(* a track that is not favorited changes nothing and returns False, and    *)
(* is_favorite answers true exactly when the last call that changed the    *)
(* pair was an add.                                                        *)
C20_FavoritesIdempotent ==
    /\ []FavoritesConsistent
    /\ [](request.op = "is_favorite" =>
             response.returned
               = (last_effective[<<request.user_id, request.track_id>>] = "add"))
    /\ [][ /\ (/\ request'.op = "add_to_favorites"
                /\ is_favorite(db, request'.user_id, request'.track_id)) =>
                    /\ db' = db
                    /\ response'.returned
                          = first_favorite(db, request'.user_id, request'.track_id)
           /\ (/\ request'.op = "remove_from_favorites"
                /\ ~is_favorite(db, request'.user_id, request'.track_id)) =>
                    /\ db' = db
                    /\ response'.returned = FALSE ]_vars

(* a track added, removed, and then removed again to no effect, while      *)
(* another pair stays favorited after a second add                         *)
C20_Witness ==
    /\ request = [op |-> "remove_from_favorites", user_id |-> 1, track_id |-> 2]
    /\ response.returned = FALSE
    /\ last_effective[<<1, 2>>] = "remove"
    /\ ~is_favorite(db, 1, 2)
    /\ last_effective[<<2, 2>>] = "add"
    /\ CopiesIn(Favorite(2, 2), db.favorites) = 1

----------------------------------------------------------------------------
(* the endpoints declared with Depends(get_current_user) *)
DependentOps == {"update_current_user", "update_user_active", "get_all_users",
                 "upload_track", "update_track", "delete_track",
                 "favorite_track", "unfavorite_track", "create_comment"}

(* C21: a request without the session_id cookie to an endpoint that        *)
(* depends on get_current_user is answered by an error the dependency      *)
(* raises; the handler body does not run with an absent current user.      *)
C21_NoCookieRaises ==
    (request.op \in DependentOps /\ request.session_id = NoCookie) =>
        (response.status >= 400 /\ response.detail = "get_current_user")

(* C22: GET /admin/users by an admin answers with a list that leaves out   *)
(* the first skip records and holds at most limit records; a caller who is *)
(* not an admin is refused with 403.                                       *)
C22_AdminListPaged ==
    request.op = "get_all_users" /\ Requester(db, request) # NoRow =>
        IF Requester(db, request).is_admin
        THEN /\ response.status = 200
             /\ Len(response.users) <= request.limit
             /\ Len(response.users) <= Len(db.users) - request.skip
        ELSE response.status = 403

(* the user a login request names, if the password is the user's *)
Credited(d, req) ==
    authenticate_user(d, req.body.email, req.body.password)

(* C23: POST /login sets the session_id cookie only for an existing email, *)
(* a verifying password and an active user, and the token then carries the *)
(* user's id as subject; otherwise the answer is 401 and no token.         *)
C23_LoginOnlyActive ==
    request.op = "login" =>
        IF Credited(db, request) # NoRow /\ Credited(db, request).is_active
        THEN /\ response.status = 200
             /\ verify_session_token(response.set_cookie)
                  = [status |-> 200, user_id |-> Credited(db, request).id]
        ELSE /\ response.status = 401
             /\ response.set_cookie = NoCookie

(* the second user logs in while some user is deactivated *)
C23_Witness ==
    /\ request.op = "login"
    /\ request.body = [email |-> "b@x", password |-> "p1"]
    /\ response.set_cookie = create_session_token(2)
    /\ \E k \in 1..Len(db.users) : ~db.users[k].is_active

----------------------------------------------------------------------------
(* how often the running call has read the file of that name *)
ReadsOf(name) ==
    Cardinality({e \in 1..Len(visits) : visits[e].ev # "year" /\ visits[e].name = name})

(* the rows the files of the directory hold, each counted once *)
RowsOnDisk ==
    SumOver([k \in 1..Len(fire_data_dir) |-> Len(read_csv(fire_data_dir[k]).rows)],
            1..Len(fire_data_dir))

(* C24: within one load_fire_data call each file is read at most once and  *)
(* the corpus holds each retained row once, whatever year tokens the file  *)
(* name contains.                                                          *)
C24_EachFileReadOnce ==
    /\ \A k \in 1..Len(fire_data_dir) : ReadsOf(fire_data_dir[k]) <= 1
    /\ pc \in {"index", "score"} => Len(fire_data.rows) <= RowsOnDisk

====
